---- MODULE Spec2Model ----
(***************************************************************************)
(* DefaultAuthenticator (src/yosai/core/authc/authc.py) and the realm      *)
(* combination strategies (src/yosai/authc/strategy.py).                   *)
(*                                                                         *)
(* Realms, the event bus and the MFA challenger are external: a realm's    *)
(* answer to one authenticate_account(token) is an input of the call, the  *)
(* bus is either wired or not, and everything the authenticator does to    *)
(* them (publications, lock_account, send_challenge, realm invocations) is *)
(* logged, in order, in the record of the call.                            *)
(*                                                                         *)
(* Python values: None is the string "None"; a failed_attempts list is its *)
(* length (the code only reads len()); an identifier collection is its     *)
(* primary_identifier; an unset account_lock_threshold / locking_limit is  *)
(* 0 (both are falsy in the code's tests).                                 *)
(***************************************************************************)
EXTENDS Integers, Sequences, FiniteSets, TLC

VARIABLES
    authc_settings,           \* [account_lock_threshold, mfa_challenger]
    authentication_strategy,  \* the injected strategy: "first" by default
    realms,                   \* tuple of authenticating realms
    token_realm_resolver,     \* defaultdict: token kind -> names of realms
    locking_realm,            \* name of the locking realm, or None
    locking_limit,            \* 0 (None) or the threshold
    event_bus,                \* TRUE iff a bus is wired
    subscriptions,            \* topics clear_cache is subscribed to on the bus
    pc,                       \* "constructed" | "ready" | "returned" | strategy phases
    call,                     \* record of the authenticate_account call just made
    saved,                    \* identifiers the caller persisted after an MFA round
    cache,                    \* record of the clear_cache run just made
    first_factor,             \* history: account ids a tier-1 call asked a second factor for
    attempt,                  \* strategy check: the AuthenticationAttempt
    verdict                   \* strategy check: what execute produced

vars == <<authc_settings, authentication_strategy, realms, token_realm_resolver,
          locking_realm, locking_limit, event_bus, subscriptions, pc, call,
          saved, cache, first_factor, attempt, verdict>>

config == <<authc_settings, authentication_strategy, realms, token_realm_resolver,
            locking_realm, locking_limit, event_bus, subscriptions>>

-----------------------------------------------------------------------------
(* Bounds *)

\* realms handed to init_realms
MaxRealms == 2
\* realms in an attempt handed straight to a strategy
MaxAttemptRealms == 3
\* largest account_lock_threshold configured
MaxThreshold == 1
\* longest failed_attempts list a realm reports: one past the largest threshold
MaxAttempts == MaxThreshold + 1

None == "None"
NoLimit == 0

\* primary identifiers of accounts and of identifier collections
Identifiers == {"alice", "bob"}
\* identifiers a token is submitted with
Usernames == {"alice"}
RealmNames == <<"R1", "R2", "R3", "R4", "R5">>

-----------------------------------------------------------------------------
(* Tokens *)

TokenKinds == {"UsernamePasswordToken", "TOTPToken"}

\* mutant: the TOTP token registered at tier 1
token_info_TotpTier1 ==
    [k \in TokenKinds |->
        IF k = "UsernamePasswordToken"
        THEN [tier |-> 1, cred_type |-> "password"]
        ELSE [tier |-> 1, cred_type |-> "totp_key"]]

token_info ==
    [k \in TokenKinds |->
        IF k = "UsernamePasswordToken"
        THEN [tier |-> 1, cred_type |-> "password"]
        ELSE [tier |-> 2, cred_type |-> "totp_key"]]

\* UsernamePasswordToken.__init__ refuses an empty username; a TOTPToken is
\* built without an identifier and gets one only by assignment.
Tokens ==
    [kind : {"UsernamePasswordToken"}, identifier : Usernames]
    \cup [kind : {"TOTPToken"}, identifier : Usernames \cup {None}]

-----------------------------------------------------------------------------
(* Exceptions *)

Exc(kind) ==
    [kind |-> kind, failed_attempts |-> 0, account_id |-> None,
     realm_errors |-> <<>>, inner |-> None]

NoExc == Exc("none")

IncorrectCredentialsException(failed_attempts) ==
    [Exc("IncorrectCredentials") EXCEPT !.failed_attempts = failed_attempts]

AdditionalAuthenticationRequired(account_id) ==
    [Exc("AdditionalAuthenticationRequired") EXCEPT !.account_id = account_id]

\* mutant: only the first error is carried
MultiRealmAuthenticationException_FirstOnly(realm_errors) ==
    [Exc("MultiRealmAuthentication") EXCEPT !.realm_errors = <<realm_errors[1]>>]

MultiRealmAuthenticationException(realm_errors) ==
    [Exc("MultiRealmAuthentication") EXCEPT !.realm_errors = realm_errors]

AuthenticationException(inner) ==
    [Exc("Authentication") EXCEPT !.inner = inner.kind]

\* the kinds that derive from AuthenticationException
AuthenticationKinds ==
    {"Authentication", "IncorrectCredentials", "LockedAccount", "AccountException",
     "AdditionalAuthenticationRequired", "InvalidAuthenticationSequence",
     "MultiRealmAuthentication"}

-----------------------------------------------------------------------------
(* Accounts and what a realm answers *)

\* account['authc_info']: cred_type -> {credential, failed_attempts}
AuthcInfo(creds, cred_type, n) ==
    [c \in creds |-> [failed_attempts |-> IF c = cred_type THEN n ELSE 0]]

NoAccount == [account_id |-> None, authc_info |-> AuthcInfo({}, None, 0)]

Account(id, creds, cred_type, n) ==
    [account_id |-> id, authc_info |-> AuthcInfo(creds, cred_type, n)]

\* A realm verifies the token against authc_info[cred_type] (get_stored_credentials),
\* so the accounts it returns hold that entry.
AuthcShapes(cred_type) ==
    {s \in {{"password"}, {"password", "totp_key"},
            {"password", "totp_key", "pin"}} : cred_type \in s}

Accounts(kind) ==
    {Account(id, s, token_info[kind].cred_type, n) :
        id \in Identifiers, s \in AuthcShapes(token_info[kind].cred_type),
        n \in 0..MaxAttempts}

Returns(a) == [type |-> "account", account |-> a, exc |-> NoExc]
ReturnsNone == [type |-> "null", account |-> NoAccount, exc |-> NoExc]
Raises(e) == [type |-> "raise", account |-> NoAccount, exc |-> e]

RealmErrors ==
    {IncorrectCredentialsException(n) : n \in 0..MaxAttempts}
    \cup {Exc("LockedAccount"), Exc("AccountException"), Exc("ValueError")}

Responses(kind) ==
    {Returns(a) : a \in Accounts(kind)} \cup {ReturnsNone}
    \cup {Raises(e) : e \in RealmErrors}

-----------------------------------------------------------------------------
(* Realms *)

Realm(name, supported, lock, authenticating) ==
    [name |-> name, supported_authc_tokens |-> supported,
     lock_account |-> lock, authenticating |-> authenticating]

\* what a realm object can look like, its name aside: an account store that
\* verifies both factors and can lock, stores for one factor only, and a realm
\* that is no AuthenticatingRealm
RealmKinds ==
    {Realm(None, {"UsernamePasswordToken", "TOTPToken"}, TRUE, TRUE),
     Realm(None, {"UsernamePasswordToken"}, FALSE, TRUE),
     Realm(None, {"TOTPToken"}, FALSE, TRUE),
     Realm(None, {}, FALSE, FALSE)}

\* tuples of at most n realms, the i-th named RealmNames[i]
RealmTuples(n) ==
    UNION {{[i \in 1..k |-> [f[i] EXCEPT !.name = RealmNames[i]]] :
                f \in [1..k -> RealmKinds]} : k \in 0..n}

\* mutant: every realm claims to support every token
supports_Any(realm, token) == TRUE

supports(realm, token) == token.kind \in realm.supported_authc_tokens

\* One answer per realm of rs to `token`, for a call that stops at the first
\* account returned: a realm that is not asked (it does not support the token,
\* or an earlier realm returned an account) has its entry fixed.
RECURSIVE AnswersFrom(_, _, _, _)
AnswersFrom(rs, token, i, found) ==
    IF i > Len(rs) THEN {<<>>}
    ELSE LET here == IF supports(rs[i], token) /\ ~found
                     THEN Responses(token.kind)
                     ELSE {ReturnsNone}
         IN UNION {{<<r>> \o rest :
                       rest \in AnswersFrom(rs, token, i + 1,
                                            found \/ r.type = "account")} :
                   r \in here}

Answers(rs, token) == AnswersFrom(rs, token, 1, FALSE)

-----------------------------------------------------------------------------
(* Strategies: execute(authc_attempt).  rs = authc_attempt.realms, resp[i] = *)
(* what rs[i].authenticate_account(token) does.  A verdict is what execute   *)
(* returned or raised, with the realms it invoked, in order.                 *)

Verdict(type, account, composite, exc, calls) ==
    [type |-> type, account |-> account, composite |-> composite,
     exc |-> exc, calls |-> calls]

ReturnAccount(a, calls) ==
    IF a = NoAccount THEN Verdict("null", NoAccount, <<>>, NoExc, calls)
    ELSE Verdict("account", a, <<>>, NoExc, calls)
ReturnComposite(c, calls) == Verdict("composite", NoAccount, c, NoExc, calls)
RaiseFrom(e, calls) == Verdict("raise", NoAccount, <<>>, e, calls)

\* DefaultCompositeAccount.append_realm_account(realm_name, account)
append_realm_account(composite, realm_name, account) ==
    Append(composite, [realm_name |-> realm_name, account |-> account])

RECURSIVE AllRealmsLoop(_, _, _, _, _, _, _, _)
AllRealmsLoop(rs, token, resp, i, first_account, first_account_realm_name, composite_account, calls) ==
    IF i > Len(rs)
    THEN IF composite_account # <<>>
         THEN ReturnComposite(composite_account, calls)
         ELSE ReturnAccount(first_account, calls)
    ELSE IF ~supports(rs[i], token)
    THEN AllRealmsLoop(rs, token, resp, i + 1, first_account,
                       first_account_realm_name, composite_account, calls)
    ELSE LET called == Append(calls, rs[i].name) IN
         IF resp[i].type = "raise" THEN RaiseFrom(resp[i].exc, called)
         ELSE IF resp[i].type = "null"
         THEN AllRealmsLoop(rs, token, resp, i + 1, first_account,
                            first_account_realm_name, composite_account, called)
         ELSE IF first_account = NoAccount
         THEN AllRealmsLoop(rs, token, resp, i + 1, resp[i].account, rs[i].name,
                            composite_account, called)
         ELSE LET started == IF composite_account = <<>>
                             THEN append_realm_account(<<>>, first_account_realm_name,
                                                       first_account)
                             ELSE composite_account
              IN AllRealmsLoop(rs, token, resp, i + 1, first_account,
                               first_account_realm_name,
                               append_realm_account(started, rs[i].name,
                                                    resp[i].account),
                               called)

\* mutant: a realm that raises counts as one that found nothing
AllRealmsSuccessfulStrategy_SkipsRaising(rs, token, resp) ==
    AllRealmsLoop(rs, token,
                  [i \in 1..Len(resp) |->
                      IF resp[i].type = "raise" THEN ReturnsNone ELSE resp[i]],
                  1, NoAccount, None, <<>>, <<>>)

AllRealmsSuccessfulStrategy(rs, token, resp) ==
    AllRealmsLoop(rs, token, resp, 1, NoAccount, None, <<>>, <<>>)

\* `account` is assigned before the loop and only by a realm call that returns,
\* so after a realm raises it still holds the previous realm's result; the
\* composite is created empty and never receives first_account.  `started`
\* tells an empty composite from None.
RECURSIVE AtLeastOneRealmLoop(_, _, _, _, _, _, _, _, _, _)
AtLeastOneRealmLoop(rs, token, resp, i, account, first_account, started, composite_account, realm_errors, calls) ==
    IF i > Len(rs)
    THEN IF started THEN ReturnComposite(composite_account, calls)
         ELSE IF first_account # NoAccount THEN ReturnAccount(first_account, calls)
         \* `self.realm_errors`: the strategy object has no such attribute
         ELSE RaiseFrom(Exc("AttributeError"), calls)
    ELSE IF ~supports(rs[i], token)
    THEN AtLeastOneRealmLoop(rs, token, resp, i + 1, account, first_account, started,
                             composite_account, realm_errors, calls)
    ELSE LET called == Append(calls, rs[i].name)
             now == IF resp[i].type = "raise" THEN account ELSE resp[i].account
             errors == IF resp[i].type = "raise"
                       THEN Append(realm_errors,
                                   [realm_name |-> rs[i].name, exc |-> resp[i].exc])
                       ELSE realm_errors
         IN IF now = NoAccount
            THEN AtLeastOneRealmLoop(rs, token, resp, i + 1, now, first_account,
                                     started, composite_account, errors, called)
            ELSE IF first_account = NoAccount
            THEN AtLeastOneRealmLoop(rs, token, resp, i + 1, now, now, started,
                                     composite_account, errors, called)
            ELSE AtLeastOneRealmLoop(rs, token, resp, i + 1, now, first_account, TRUE,
                                     append_realm_account(composite_account,
                                                          rs[i].name, now),
                                     errors, called)

AtLeastOneRealmSuccessfulStrategy(rs, token, resp) ==
    AtLeastOneRealmLoop(rs, token, resp, 1, NoAccount, NoAccount, FALSE, <<>>, <<>>,
                        <<>>)

RECURSIVE FirstRealmLoop(_, _, _, _, _, _)
FirstRealmLoop(rs, token, resp, i, realm_errors, calls) ==
    IF i > Len(rs)
    THEN IF realm_errors # <<>>
         THEN IF Len(realm_errors) = 1
              THEN IF realm_errors[1].exc.kind \in AuthenticationKinds
                   THEN RaiseFrom(realm_errors[1].exc, calls)
                   ELSE RaiseFrom(AuthenticationException(realm_errors[1].exc), calls)
              ELSE RaiseFrom(MultiRealmAuthenticationException(realm_errors), calls)
         ELSE ReturnAccount(NoAccount, calls)
    ELSE IF ~supports(rs[i], token)
    THEN FirstRealmLoop(rs, token, resp, i + 1, realm_errors, calls)
    ELSE LET called == Append(calls, rs[i].name) IN
         IF resp[i].type = "raise"
         THEN FirstRealmLoop(rs, token, resp, i + 1,
                             Append(realm_errors,
                                    [realm_name |-> rs[i].name, exc |-> resp[i].exc]),
                             called)
         ELSE IF resp[i].type = "account"
         THEN ReturnAccount(resp[i].account, called)
         ELSE FirstRealmLoop(rs, token, resp, i + 1, realm_errors, called)

\* mutant: an account counts only while no earlier realm has raised
RECURSIVE FirstRealmLoop_KeepsErrors(_, _, _, _, _, _)
FirstRealmLoop_KeepsErrors(rs, token, resp, i, realm_errors, calls) ==
    IF i > Len(rs)
    THEN IF realm_errors # <<>>
         THEN IF Len(realm_errors) = 1
              THEN IF realm_errors[1].exc.kind \in AuthenticationKinds
                   THEN RaiseFrom(realm_errors[1].exc, calls)
                   ELSE RaiseFrom(AuthenticationException(realm_errors[1].exc), calls)
              ELSE RaiseFrom(MultiRealmAuthenticationException(realm_errors), calls)
         ELSE ReturnAccount(NoAccount, calls)
    ELSE IF ~supports(rs[i], token)
    THEN FirstRealmLoop_KeepsErrors(rs, token, resp, i + 1, realm_errors, calls)
    ELSE LET called == Append(calls, rs[i].name) IN
         IF resp[i].type = "raise"
         THEN FirstRealmLoop_KeepsErrors(rs, token, resp, i + 1,
                             Append(realm_errors,
                                    [realm_name |-> rs[i].name, exc |-> resp[i].exc]),
                             called)
         ELSE IF resp[i].type = "account" /\ realm_errors = <<>>
         THEN ReturnAccount(resp[i].account, called)
         ELSE FirstRealmLoop_KeepsErrors(rs, token, resp, i + 1, realm_errors, called)

FirstRealmSuccessfulStrategy_KeepsErrors(rs, token, resp) ==
    FirstRealmLoop_KeepsErrors(rs, token, resp, 1, <<>>, <<>>)

FirstRealmSuccessfulStrategy(rs, token, resp) ==
    FirstRealmLoop(rs, token, resp, 1, <<>>, <<>>)

execute(strategy, rs, token, resp) ==
    CASE strategy = "all" -> AllRealmsSuccessfulStrategy(rs, token, resp)
      [] strategy = "at_least_one" -> AtLeastOneRealmSuccessfulStrategy(rs, token, resp)
      [] strategy = "first" -> FirstRealmSuccessfulStrategy(rs, token, resp)

-----------------------------------------------------------------------------
(* DefaultAuthenticator: construction and init_realms *)

IndexOf(name) == CHOOSE i \in 1..Len(realms) : realms[i].name = name

\* token_resolver[token_class].append(realm), realm by realm in tuple order
init_token_resolution(rs) ==
    LET keys == UNION {rs[i].supported_authc_tokens :
                          i \in {j \in 1..Len(rs) : rs[j].authenticating}}
        named(k) == SelectSeq(rs, LAMBDA r : r.authenticating
                                            /\ k \in r.supported_authc_tokens)
    IN [k \in keys |-> [i \in 1..Len(named(k)) |-> named(k)[i].name]]

\* the first realm with a lock_account attribute, or None
locate_locking_realm(rs) ==
    LET lockers == SelectSeq(rs, LAMBDA r : r.lock_account)
    IN IF lockers = <<>> THEN None ELSE lockers[1].name

\* event_bus.subscribe(...) for both topics; AttributeError (no bus) is logged
register_cache_clear_listener ==
    IF event_bus THEN subscriptions \cup {"SESSION.EXPIRE", "SESSION.STOP"}
    ELSE subscriptions

Init ==
    /\ authc_settings \in [account_lock_threshold : 0..MaxThreshold,
                           mfa_challenger : BOOLEAN]
    /\ authentication_strategy = "first"
    /\ realms = <<>>
    /\ token_realm_resolver = <<>>
    /\ locking_realm = None
    /\ locking_limit = NoLimit
    /\ event_bus \in BOOLEAN
    /\ subscriptions = {}
    /\ pc = "constructed"
    /\ call = <<>>
    /\ saved = None
    /\ cache = <<>>
    /\ first_factor = {}
    /\ attempt = <<>>
    /\ verdict = <<>>

init_realms(given) ==
    /\ pc = "constructed"
    /\ LET filtered == SelectSeq(given, LAMBDA r : r.authenticating)
           threshold == authc_settings.account_lock_threshold
       IN /\ realms' = filtered
          /\ subscriptions' = register_cache_clear_listener
          /\ token_realm_resolver' = init_token_resolution(filtered)
          \* init_locking
          /\ locking_realm' = IF threshold # 0 THEN locate_locking_realm(filtered)
                              ELSE locking_realm
          /\ locking_limit' = IF threshold # 0 THEN threshold ELSE locking_limit
    /\ pc' = "ready"
    /\ UNCHANGED <<authc_settings, authentication_strategy, event_bus, call, saved,
                   cache, first_factor, attempt, verdict>>

-----------------------------------------------------------------------------
(* DefaultAuthenticator.authenticate_account.  The record of a call is      *)
(* threaded through the statements; exc is the exception in flight.          *)

Event(topic, identifier) == [topic |-> topic, identifier |-> identifier]

NewCall(identifiers, token) ==
    [identifiers |-> identifiers, submitted |-> token, token |-> token,
     dispatched |-> FALSE, result |-> Verdict("none", NoAccount, <<>>, NoExc, <<>>),
     account |-> NoAccount, strategy_calls |-> <<>>, realm_calls |-> <<>>,
     examined |-> <<>>, lock_calls |-> <<>>, events |-> <<>>, challenges |-> <<>>,
     exc |-> NoExc, returned |-> None]

Raise(st, e) == [st EXCEPT !.exc = e]
Running(st) == st.exc = NoExc

\* without a bus sendMessage fails on None and the AttributeError is raised again
\* with the message "Could not publish <topic> event"
CouldNotPublish == [Exc("AttributeError") EXCEPT !.inner = "Could not publish"]

notify_event(st, identifier, topic) ==
    IF event_bus
    THEN [st EXCEPT !.events = Append(@, Event(topic, identifier))]
    ELSE Raise(st, CouldNotPublish)

\* mutant: locks at the threshold, not beyond it
validate_locked_AtThreshold(st, failed_attempts) ==
    LET seen == [st EXCEPT !.examined = Append(@, failed_attempts)] IN
    IF locking_limit # NoLimit /\ failed_attempts >= locking_limit
    THEN IF locking_realm = None
         THEN Raise(seen, Exc("AttributeError"))
         ELSE LET locked == [seen EXCEPT !.lock_calls =
                                Append(@, [realm |-> locking_realm,
                                           identifier |-> st.token.identifier])]
                  told == notify_event(locked, st.token.identifier,
                                       "AUTHENTICATION.ACCOUNT_LOCKED")
              IN IF Running(told) THEN Raise(told, Exc("LockedAccount")) ELSE told
    ELSE seen

validate_locked(st, failed_attempts) ==
    LET seen == [st EXCEPT !.examined = Append(@, failed_attempts)] IN
    IF locking_limit # NoLimit /\ failed_attempts > locking_limit
    THEN IF locking_realm = None
         THEN Raise(seen, Exc("AttributeError"))
         ELSE LET locked == [seen EXCEPT !.lock_calls =
                                Append(@, [realm |-> locking_realm,
                                           identifier |-> st.token.identifier])]
                  told == notify_event(locked, st.token.identifier,
                                       "AUTHENTICATION.ACCOUNT_LOCKED")
              IN IF Running(told) THEN Raise(told, Exc("LockedAccount")) ELSE told
    ELSE seen

\* realm.authenticate_account(authc_token) on the first realm resolved for the
\* token's class
authenticate_single_realm_account(st, realms_for, resp) ==
    IF realms_for = <<>>
    THEN Raise(st, Exc("IndexError"))
    ELSE LET i == IndexOf(realms_for[1])
             r == resp[i]
             asked == [st EXCEPT !.realm_calls = <<realms_for[1]>>,
                                 !.result = Verdict(r.type, r.account, <<>>, r.exc,
                                                    <<realms_for[1]>>)]
         IN IF r.type = "raise" THEN Raise(asked, r.exc)
            ELSE [asked EXCEPT !.account = r.account]

\* self.authentication_strategy(AuthenticationAttempt(authc_token, realms)), the
\* strategy being the one the constructor injects by default
authenticate_multi_realm_account(st, resp) ==
    LET v == FirstRealmSuccessfulStrategy(realms, st.token, resp)
        asked == [st EXCEPT !.strategy_calls =
                                Append(@, [i \in 1..Len(realms) |-> realms[i].name]),
                            !.realm_calls = v.calls,
                            !.result = v]
    IN IF v.type = "raise" THEN Raise(asked, v.exc)
       ELSE [asked EXCEPT !.account = v.account]

\* token_realm_resolver[authc_token.__class__] on a defaultdict(list)
Resolve(kind) ==
    IF kind \in DOMAIN token_realm_resolver THEN token_realm_resolver[kind] ELSE <<>>

Resolved(kind) ==
    [k \in DOMAIN token_realm_resolver \cup {kind} |-> Resolve(k)]

\* mutant: asks for another factor at the token's tier already
MfaGate_AtTier(st) ==
    IF Cardinality(DOMAIN st.account.authc_info) >= token_info[st.token.kind].tier
    THEN LET told == notify_event(st, st.token.identifier, "AUTHENTICATION.PROGRESS")
         IN IF Running(told)
            THEN Raise(told, AdditionalAuthenticationRequired(st.account.account_id))
            ELSE told
    ELSE st

\* the condition that verifies whether the account uses MFA
MfaGate(st) ==
    IF Cardinality(DOMAIN st.account.authc_info) > token_info[st.token.kind].tier
    THEN LET told == notify_event(st, st.token.identifier, "AUTHENTICATION.PROGRESS")
         IN IF Running(told)
            THEN Raise(told, AdditionalAuthenticationRequired(st.account.account_id))
            ELSE told
    ELSE st

\* mutant: one realm resolved for the token's class takes the direct path
IsSingleRealm_Resolved(realms_for) == Len(realms_for) = 1

\* len(self.realms) == 1
IsSingleRealm(realms_for) == Len(realms) = 1

do_authenticate_account(st, resp) ==
    LET entered == [st EXCEPT !.dispatched = TRUE]
        got == IF IsSingleRealm(Resolve(st.token.kind))
               THEN authenticate_single_realm_account(entered, Resolve(st.token.kind),
                                                      resp)
               ELSE authenticate_multi_realm_account(entered, resp)
        cred_type == token_info[st.token.kind].cred_type
    IN IF ~Running(got) THEN got
       ELSE IF got.account = NoAccount THEN Raise(got, Exc("TypeError"))
       ELSE IF cred_type \notin DOMAIN got.account.authc_info
       THEN Raise(got, Exc("KeyError"))
       ELSE LET checked == validate_locked(
                               got, got.account.authc_info[cred_type].failed_attempts)
            IN IF Running(checked) THEN MfaGate(checked) ELSE checked

\* the body of an except clause: the caught exception is re-raised unless the
\* body raised one of its own
Reraise(st, e) == IF Running(st) THEN Raise(st, e) ELSE st

send_challenge(st) ==
    IF authc_settings.mfa_challenger
    THEN [st EXCEPT !.challenges = Append(@, st.token.identifier)]
    ELSE st

\* except AdditionalAuthenticationRequired
OnAdditionalAuthenticationRequired(caught, e) ==
    LET told == notify_event(caught, caught.token.identifier,
                             "AUTHENTICATION.PROGRESS")
    IN IF Running(told) THEN Raise(send_challenge(told), e) ELSE told

\* except AccountException
OnAccountException(caught, e) ==
    Reraise(notify_event(caught, caught.token.identifier,
                         "AUTHENTICATION.ACCOUNT_NOT_FOUND"), e)

\* except LockedAccountException
OnLockedAccount(caught, e) ==
    LET failed == notify_event(caught, caught.token.identifier,
                               "AUTHENTICATION.FAILED")
    IN IF Running(failed)
       THEN Reraise(notify_event(failed, caught.token.identifier,
                                 "AUTHENTICATION.ACCOUNT_LOCKED"), e)
       ELSE failed

\* mutant: the failure is published and re-raised without the lock check
OnIncorrectCredentials_NoLockCheck(caught, e) ==
    Reraise(notify_event(caught, caught.token.identifier, "AUTHENTICATION.FAILED"),
            IncorrectCredentialsException(0))

\* except IncorrectCredentialsException; what is raised in the end is the bare
\* class, a new exception without failed_attempts
OnIncorrectCredentials(caught, e) ==
    LET failed == notify_event(caught, caught.token.identifier,
                               "AUTHENTICATION.FAILED")
    IN IF Running(failed)
       THEN Reraise(validate_locked(failed, e.failed_attempts),
                    IncorrectCredentialsException(0))
       ELSE failed

\* mutant: an aggregated failure is published as a failed authentication
Handle_FailsAggregate(st) ==
    IF st.exc.kind = "MultiRealmAuthentication"
    THEN Reraise(notify_event([st EXCEPT !.exc = NoExc], st.token.identifier,
                              "AUTHENTICATION.FAILED"), st.exc)
    ELSE st

\* the except clauses of authenticate_account; anything else propagates
Handle(st) ==
    LET e == st.exc
        caught == [st EXCEPT !.exc = NoExc]
    IN CASE e.kind = "AdditionalAuthenticationRequired" ->
              OnAdditionalAuthenticationRequired(caught, e)
         [] e.kind = "AccountException" -> OnAccountException(caught, e)
         [] e.kind = "LockedAccount" -> OnLockedAccount(caught, e)
         [] e.kind = "IncorrectCredentials" -> OnIncorrectCredentials(caught, e)
         [] OTHER -> st

\* mutant: the success is published under the token's identifier
Succeed_KeyedByToken(st) ==
    LET told == notify_event(st, st.token.identifier, "AUTHENTICATION.SUCCEEDED")
    IN IF Running(told) THEN [told EXCEPT !.returned = st.account.account_id]
       ELSE told

\* mutant: the account_id is returned without the publication
Succeed_Unpublished(st) == [st EXCEPT !.returned = st.account.account_id]

Succeed(st) ==
    LET told == notify_event(st, st.account.account_id, "AUTHENTICATION.SUCCEEDED")
    IN IF Running(told) THEN [told EXCEPT !.returned = st.account.account_id]
       ELSE told

\* the sequence check: a token without identifier needs the identifiers of an
\* earlier round
OutOfSequence(identifiers, token) == token.identifier = None /\ identifiers = None

\* mutant: the prior identifiers are never attached
Attached_Never(identifiers, token) == token

\* authc_token.identifier = identifiers.primary_identifier, for a token without one
Attached(identifiers, token) ==
    IF token.identifier = None THEN [token EXCEPT !.identifier = identifiers]
    ELSE token

Outcome(identifiers, token, resp) ==
    IF OutOfSequence(identifiers, token)
    THEN Raise(NewCall(identifiers, token), Exc("InvalidAuthenticationSequence"))
    ELSE LET st == [NewCall(identifiers, token) EXCEPT
                        !.token = Attached(identifiers, token)]
             done == do_authenticate_account(st, resp)
             tried == IF Running(done) /\ done.account = NoAccount
                      THEN Raise(done, Exc("AccountException"))
                      ELSE done
         IN IF Running(tried) THEN Succeed(tried) ELSE Handle(tried)

authenticate_account(identifiers, token, resp) ==
    /\ pc = "ready"
    /\ call' = Outcome(identifiers, token, resp)
    /\ token_realm_resolver' =
           IF call'.dispatched THEN Resolved(token.kind) ELSE token_realm_resolver
    /\ first_factor' =
           IF /\ call'.exc.kind = "AdditionalAuthenticationRequired"
              /\ token_info[token.kind].tier = 1
           THEN first_factor \cup {call'.exc.account_id}
           ELSE first_factor
    /\ pc' = "returned"
    /\ UNCHANGED <<authc_settings, authentication_strategy, realms, locking_realm,
                   locking_limit, event_bus, subscriptions, saved, cache, attempt,
                   verdict>>

-----------------------------------------------------------------------------
(* DefaultAuthenticator.clear_cache, the handler of the session events       *)

SessionTopics == {"SESSION.EXPIRE", "SESSION.STOP"}

\* What an event hands to the handler as `items`: something without
\* identifiers, or results whose identifiers answer from_source(realm name)
\* with an identifier or None.
Payloads ==
    LET names == {RealmNames[i] : i \in 1..MaxRealms}
    IN {[identifiers |-> FALSE, from_source |-> [n \in names |-> None]]}
       \cup {[identifiers |-> TRUE, from_source |-> f] :
                f \in [names -> Identifiers \cup {None}]}

Cleared(calls, exc) == [calls |-> calls, exc |-> exc]

\* the try body: items.identifiers.from_source fails with AttributeError in
\* the first iteration when items has no identifiers
ClearLoop(items, asked) ==
    IF ~items.identifiers
    THEN Cleared(<<>>, IF realms = <<>> THEN NoExc ELSE Exc("AttributeError"))
    ELSE Cleared([k \in 1..Len(asked) |->
                     [realm |-> asked[k].name,
                      identifier |-> items.from_source[asked[k].name]]],
                 NoExc)

\* `if identifier`: the realms the payload carries an identifier for
Identified(items) == SelectSeq(realms, LAMBDA r : items.from_source[r.name] # None)

\* except AttributeError: a warning is logged
ClearHandled(done) ==
    IF done.exc.kind = "AttributeError" THEN [done EXCEPT !.exc = NoExc] ELSE done

\* mutant: the identifier is handed to the realm without the test for it
clear_cache_Untested(items) ==
    ClearHandled(ClearLoop(items, realms))

clear_cache(items) ==
    ClearHandled(ClearLoop(items, Identified(items)))

\* the bus delivers an event of a topic the handler is subscribed to
SessionEvent(topic, items) ==
    /\ pc = "ready"
    /\ topic \in subscriptions
    /\ cache' = [topic |-> topic, items |-> items, done |-> clear_cache(items)]
    /\ pc' = "cleared"
    /\ UNCHANGED <<config, call, saved, first_factor, attempt, verdict>>

\* The caller (the security manager) takes the outcome: after
\* AdditionalAuthenticationRequired it keeps the account_id for the next
\* round, after a completed login nothing is pending.  The bus takes control
\* back from the handler.
Return ==
    /\ pc \in {"returned", "cleared"}
    /\ saved' = IF pc = "cleared" THEN saved
                ELSE IF call.exc.kind = "AdditionalAuthenticationRequired"
                THEN call.exc.account_id
                ELSE IF call.returned # None THEN None ELSE saved
    /\ call' = <<>>
    /\ cache' = <<>>
    /\ pc' = "ready"
    /\ UNCHANGED <<config, first_factor, attempt, verdict>>

\* What the caller submits: anything while no round is pending; with the
\* identifiers of an earlier round at hand, the next factor under them.
Submissions ==
    IF saved = None
    THEN {<<identifiers, token>> : identifiers \in Identifiers \cup {None},
                                   token \in Tokens}
    ELSE {<<saved, [kind |-> "TOTPToken", identifier |-> None]>>}

Next ==
    \/ /\ pc = "constructed"
       /\ \E given \in RealmTuples(MaxRealms) : init_realms(given)
    \/ /\ pc = "ready"
       /\ \E s \in Submissions : \E resp \in Answers(realms, s[2]) :
             authenticate_account(s[1], s[2], resp)
    \/ /\ pc = "ready"
       /\ \E topic \in SessionTopics, items \in Payloads : SessionEvent(topic, items)
    \/ Return

Spec == Init /\ [][Next]_vars

-----------------------------------------------------------------------------
(* The strategies on their own: an attempt is drawn, with what each of its   *)
(* realms answers, and a strategy executes it.                               *)

\* realms of an attempt: each supports both token kinds or passwords only
AttemptRealmKinds ==
    {Realm(None, {"UsernamePasswordToken", "TOTPToken"}, TRUE, TRUE),
     Realm(None, {"UsernamePasswordToken"}, FALSE, TRUE)}

AttemptRealms ==
    UNION {{[i \in 1..k |-> [f[i] EXCEPT !.name = RealmNames[i]]] :
                f \in [1..k -> AttemptRealmKinds]} : k \in 0..MaxAttemptRealms}

AttemptTokens == {[kind |-> k, identifier |-> "alice"] : k \in TokenKinds}

\* what a realm of an attempt answers: one of two accounts, None, or an error
\* of authentication kind or not
AttemptResponses(kind) ==
    {Returns(Account(id, {token_info[kind].cred_type}, token_info[kind].cred_type, 0)) :
        id \in Identifiers}
    \cup {ReturnsNone}
    \cup {Raises(e) : e \in {IncorrectCredentialsException(0), Exc("AccountException"),
                             Exc("ValueError")}}

AttemptAnswers(rs, token) ==
    {r \in [1..Len(rs) -> AttemptResponses(token.kind)] :
        \A i \in 1..Len(rs) : ~supports(rs[i], token) => r[i] = ReturnsNone}

InitStrategy ==
    /\ authc_settings = [account_lock_threshold |-> 0, mfa_challenger |-> FALSE]
    /\ authentication_strategy = "first"
    /\ realms = <<>>
    /\ token_realm_resolver = <<>>
    /\ locking_realm = None
    /\ locking_limit = NoLimit
    /\ event_bus = FALSE
    /\ subscriptions = {}
    /\ call = <<>>
    /\ saved = None
    /\ cache = <<>>
    /\ first_factor = {}
    /\ pc = "attempt"
    /\ \E rs \in AttemptRealms, token \in AttemptTokens :
          \E resp \in AttemptAnswers(rs, token) :
              attempt = [authentication_token |-> token, realms |-> rs,
                         answers |-> resp]
    /\ verdict = <<>>

Execute(strategy) ==
    /\ pc = "attempt"
    /\ verdict' = [strategy |-> strategy,
                   outcome |-> execute(strategy, attempt.realms,
                                       attempt.authentication_token,
                                       attempt.answers)]
    /\ pc' = "executed"
    /\ UNCHANGED <<config, call, saved, cache, first_factor, attempt>>

ExecuteAllRealmsSuccessful == Execute("all")
ExecuteAtLeastOneRealmSuccessful == Execute("at_least_one")
ExecuteFirstRealmSuccessful == Execute("first")

NextStrategy ==
    \/ ExecuteAllRealmsSuccessful
    \/ ExecuteAtLeastOneRealmSuccessful
    \/ ExecuteFirstRealmSuccessful

SpecStrategy == InitStrategy /\ [][NextStrategy]_vars

-----------------------------------------------------------------------------
(* Reading the record of a call *)

Made == pc = "returned"
Topics == [i \in 1..Len(call.events) |-> call.events[i].topic]
Published(topic) == \E i \in 1..Len(call.events) : call.events[i].topic = topic
Depth(account) == Cardinality(DOMAIN account.authc_info)
Tier == token_info[call.token.kind].tier
FailedAttempts(account) ==
    account.authc_info[token_info[call.token.kind].cred_type].failed_attempts
Breaches(n) == locking_limit # NoLimit /\ n > locking_limit
\* dispatch (the single realm, or the strategy) handed back an account
GotAccount == Made /\ call.result.type = "account"
\* a locking realm is there whenever a threshold is configured
LockingReady == locking_limit # NoLimit => locking_realm # None
LockCall == [realm |-> locking_realm, identifier |-> call.token.identifier]

-----------------------------------------------------------------------------
(* C1: with a bus wired, a call whose dispatch hands back an account whose   *)
(* failed_attempts do not breach the threshold raises                        *)
(* AdditionalAuthenticationRequired(account_id) exactly when the account has *)
(* more authc_info entries than the token's tier, and otherwise returns the  *)
(* account_id.                                                               *)
C1_MfaGate ==
    (GotAccount /\ event_bus /\ ~Breaches(FailedAttempts(call.result.account)))
    => LET a == call.result.account IN
       /\ (Depth(a) > Tier) <=>
              (call.exc = AdditionalAuthenticationRequired(a.account_id))
       /\ ~(Depth(a) > Tier) => (call.exc = NoExc /\ call.returned = a.account_id)
       /\ (call.exc # NoExc) => call.returned = None

C1_Witness ==
    /\ GotAccount /\ event_bus
    /\ call.token.kind = "TOTPToken"
    /\ Depth(call.result.account) = 3
    /\ call.exc = AdditionalAuthenticationRequired(call.result.account.account_id)

(* C2: with a bus wired and no lock breached, for an account holding the two *)
(* entries password and totp_key: a password call publishes                  *)
(* AUTHENTICATION.PROGRESS, raises AdditionalAuthenticationRequired(         *)
(* account_id) and publishes no AUTHENTICATION.SUCCEEDED; the following call *)
(* the caller makes with an identifier-less TOTP token under the identifiers *)
(* it kept returns that account_id and publishes AUTHENTICATION.SUCCEEDED.   *)
TwoFactor(account) == DOMAIN account.authc_info = {"password", "totp_key"}

C2_Round1 ==
    /\ GotAccount /\ event_bus
    /\ call.token.kind = "UsernamePasswordToken"
    /\ TwoFactor(call.result.account)
    /\ ~Breaches(FailedAttempts(call.result.account))

C2_Round2 ==
    /\ GotAccount /\ event_bus
    /\ saved # None
    /\ call.submitted = [kind |-> "TOTPToken", identifier |-> None]
    /\ call.identifiers = saved
    /\ TwoFactor(call.result.account)
    /\ call.result.account.account_id = saved
    /\ ~Breaches(FailedAttempts(call.result.account))

C2_TwoRounds ==
    /\ C2_Round1 =>
          /\ Published("AUTHENTICATION.PROGRESS")
          /\ ~Published("AUTHENTICATION.SUCCEEDED")
          /\ call.exc = AdditionalAuthenticationRequired(
                            call.result.account.account_id)
    /\ C2_Round2 =>
          /\ call.exc = NoExc
          /\ call.returned = saved
          /\ Published("AUTHENTICATION.SUCCEEDED")

C2_Witness == C2_Round2 /\ call.returned = saved /\ Len(realms) = 1

(* C3: a token without identifier submitted without prior identifiers ends   *)
(* in InvalidAuthenticationSequence with no realm invoked and no event       *)
(* published; submitted with prior identifiers it gets their primary         *)
(* identifier; every call that reaches dispatch has token.identifier set.    *)
C3_Sequence ==
    Made =>
    /\ (call.submitted.identifier = None /\ call.identifiers = None) =>
          /\ call.exc.kind = "InvalidAuthenticationSequence"
          /\ ~call.dispatched
          /\ call.realm_calls = <<>> /\ call.strategy_calls = <<>>
          /\ call.events = <<>> /\ call.lock_calls = <<>>
    /\ (call.submitted.identifier = None /\ call.identifiers # None) =>
          (call.dispatched /\ call.token.identifier = call.identifiers)
    /\ call.dispatched => call.token.identifier # None

C3_Witness ==
    /\ Made /\ call.submitted.identifier = None /\ call.identifiers = "bob"
    /\ call.dispatched /\ call.realm_calls # <<>>
    /\ call.token.identifier = "bob"

(* C4: with a threshold N configured and a locking realm present, a call     *)
(* examines at most one failed_attempts list; if its length is <= N (or none *)
(* is examined) lock_account is not called, and if it is > N lock_account is *)
(* called exactly once, on the locking realm, with the token's identifier.   *)
C4_LockThreshold ==
    (Made /\ locking_limit # NoLimit /\ locking_realm # None) =>
    /\ Len(call.examined) <= 1
    /\ call.examined = <<>> => call.lock_calls = <<>>
    /\ \A i \in 1..Len(call.examined) :
          IF call.examined[i] > locking_limit
          THEN call.lock_calls = <<LockCall>>
          ELSE call.lock_calls = <<>>

C4_Witness ==
    /\ Made /\ locking_limit # NoLimit /\ locking_realm # None
    /\ call.examined = <<locking_limit + 1>>
    /\ call.lock_calls = <<LockCall>>
    /\ call.token.identifier = "bob"

(* C5: with a bus wired (and a locking realm whenever a threshold is set),   *)
(* when dispatch raises IncorrectCredentials carrying failed_attempts: if    *)
(* their number exceeds the threshold the call publishes exactly FAILED then *)
(* ACCOUNT_LOCKED, calls lock_account(identifier) once and raises            *)
(* LockedAccount; otherwise it publishes exactly FAILED, locks nothing and   *)
(* raises IncorrectCredentials.                                              *)
DispatchRaised(kind) ==
    Made /\ call.result.type = "raise" /\ call.result.exc.kind = kind

C5_IncorrectCredentials ==
    (DispatchRaised("IncorrectCredentials") /\ event_bus /\ LockingReady) =>
    IF Breaches(call.result.exc.failed_attempts)
    THEN /\ call.events =
                <<Event("AUTHENTICATION.FAILED", call.token.identifier),
                  Event("AUTHENTICATION.ACCOUNT_LOCKED", call.token.identifier)>>
         /\ call.lock_calls = <<LockCall>>
         /\ call.exc.kind = "LockedAccount"
    ELSE /\ call.events = <<Event("AUTHENTICATION.FAILED", call.token.identifier)>>
         /\ call.lock_calls = <<>>
         /\ call.exc.kind = "IncorrectCredentials"

C5_Witness ==
    /\ DispatchRaised("IncorrectCredentials") /\ event_bus
    /\ Breaches(call.result.exc.failed_attempts)
    /\ call.exc.kind = "LockedAccount"
    /\ Topics = <<"AUTHENTICATION.FAILED", "AUTHENTICATION.ACCOUNT_LOCKED">>

(* C6: every call that ends by raising LockedAccount has published           *)
(* AUTHENTICATION.FAILED and then AUTHENTICATION.ACCOUNT_LOCKED, and no      *)
(* AUTHENTICATION.ACCOUNT_LOCKED before the FAILED.                          *)
C6_LockedOrder ==
    (Made /\ call.exc.kind = "LockedAccount") =>
    \E i \in 1..Len(call.events) :
        /\ call.events[i].topic = "AUTHENTICATION.FAILED"
        /\ \E j \in (i + 1)..Len(call.events) :
               call.events[j].topic = "AUTHENTICATION.ACCOUNT_LOCKED"
        /\ \A j \in 1..(i - 1) :
               call.events[j].topic # "AUTHENTICATION.ACCOUNT_LOCKED"

(* C7: with a bus wired, when the single configured realm returns an account *)
(* with no more authc_info entries than the token's tier and no threshold is *)
(* breached, the call returns account_id and publishes exactly one event,    *)
(* AUTHENTICATION.SUCCEEDED under account_id.primary_identifier.             *)
C7_Success ==
    (/\ GotAccount /\ event_bus /\ Len(realms) = 1
     /\ Depth(call.result.account) <= Tier
     /\ ~Breaches(FailedAttempts(call.result.account)))
    => /\ call.exc = NoExc
       /\ call.returned = call.result.account.account_id
       /\ call.events = <<Event("AUTHENTICATION.SUCCEEDED",
                                call.result.account.account_id)>>

C7_Witness ==
    /\ GotAccount /\ event_bus /\ Len(realms) = 1
    /\ call.returned = "bob" /\ call.token.identifier = "alice"
    /\ Topics = <<"AUTHENTICATION.SUCCEEDED">>

(* C8: when dispatch yields None (no realm returned an account, none raised) *)
(* the call raises AccountException and publishes                            *)
(* AUTHENTICATION.ACCOUNT_NOT_FOUND.                                         *)
C8_NullAccount ==
    (Made /\ event_bus /\ call.result.type = "null") =>
    /\ call.exc.kind = "AccountException"
    /\ Published("AUTHENTICATION.ACCOUNT_NOT_FOUND")

(* C9: no call fails for want of an event bus: a publication without a bus   *)
(* is a no-op.                                                               *)
C9_AbsentBus == (Made /\ ~event_bus) => call.exc # CouldNotPublish


-----------------------------------------------------------------------------
(* Reading the verdict of a strategy *)

Executed(strategy) == pc = "executed" /\ verdict.strategy = strategy
Supporting == {i \in 1..Len(attempt.realms) :
                  supports(attempt.realms[i], attempt.authentication_token)}
Succeeding == {i \in Supporting : attempt.answers[i].type = "account"}
Raising == {i \in Supporting : attempt.answers[i].type = "raise"}
\* the names of the supporting realms up to the i-th, in attempt order
NamesUpTo(i) ==
    LET upto == SelectSeq([j \in 1..i |-> attempt.realms[j]],
                          LAMBDA r : supports(r, attempt.authentication_token))
    IN [j \in 1..Len(upto) |-> upto[j].name]

(* C10: FirstRealmSuccessful returns non-null exactly when some supporting   *)
(* realm returns an account; the result is then the account of the first     *)
(* such realm in attempt order, the realms invoked are the supporting realms *)
(* up to that one and none after it, and what earlier realms raised is       *)
(* dropped.                                                                  *)
C10_FirstShortCircuit ==
    Executed("first") =>
    /\ (verdict.outcome.type \notin {"null", "raise"}) <=> (Succeeding # {})
    /\ Succeeding # {} =>
          LET first == CHOOSE i \in Succeeding : \A j \in Succeeding : i <= j
          IN /\ verdict.outcome.type = "account"
             /\ verdict.outcome.account = attempt.answers[first].account
             /\ verdict.outcome.calls = NamesUpTo(first)
             /\ verdict.outcome.exc = NoExc

C10_Witness ==
    /\ Executed("first")
    /\ Len(attempt.realms) = 3 /\ Supporting = {1, 2, 3}
    /\ attempt.answers[1].type = "raise"
    /\ attempt.answers[2].type = "account"
    /\ attempt.answers[3].type = "account"
    /\ attempt.answers[3].account # attempt.answers[2].account
    /\ verdict.outcome.account = attempt.answers[2].account
    /\ verdict.outcome.calls = <<"R1", "R2">>

\* the least index of a non-empty set of realm indices
First(S) == CHOOSE i \in S : \A j \in S : i <= j
\* realm name -> error, for the realms of the attempt that raise
ErrorsRaised == {[realm_name |-> attempt.realms[i].name, exc |-> attempt.answers[i].exc] :
                    i \in Raising}
ErrorsCarried(e) == {e.realm_errors[k] : k \in 1..Len(e.realm_errors)}

C12_AllShortCircuit ==
    (Executed("all") /\ Raising # {}) =>
    LET v == verdict.outcome
    IN /\ v.type = "raise"
       /\ v.exc = attempt.answers[First(Raising)].exc
       /\ v.calls = NamesUpTo(First(Raising))
       /\ v.account = NoAccount /\ v.composite = <<>>

C12_Witness ==
    /\ Executed("all")
    /\ Len(attempt.realms) = 3 /\ Supporting = {1, 2, 3}
    /\ attempt.answers[1].type = "account"
    /\ Raising = {2, 3}
    /\ attempt.answers[3].exc # attempt.answers[2].exc
    /\ verdict.outcome.exc = attempt.answers[2].exc
    /\ verdict.outcome.calls = <<"R1", "R2">>

(* C13: AtLeastOneRealmSuccessful, when no supporting realm returns an       *)
(* account: if some realm raised it raises MultiRealmAuthentication whose    *)
(* map holds exactly the raising realms, each with its error; if none raised *)
(* it returns None.                                                          *)
C13_AtLeastOneNoSuccess ==
    (Executed("at_least_one") /\ Succeeding = {}) =>
    LET v == verdict.outcome
    IN IF Raising # {}
       THEN /\ v.type = "raise"
            /\ v.exc.kind = "MultiRealmAuthentication"
            /\ ErrorsCarried(v.exc) = ErrorsRaised
       ELSE v.type = "null"

\* the sub-accounts of a composite, as realm name -> account pairs
SubAccounts(composite) == {composite[k] : k \in 1..Len(composite)}
\* what the succeeding realms returned, as realm name -> account pairs
AccountsReturned == {[realm_name |-> attempt.realms[i].name,
                      account |-> attempt.answers[i].account] : i \in Succeeding}

(* C14: whenever AllRealmsSuccessful or AtLeastOneRealmSuccessful returns:   *)
(* the result is a composite exactly when two or more supporting realms      *)
(* returned an account; a composite holds two or more sub-accounts under     *)
(* distinct realm names, each the account that realm returned; with exactly  *)
(* one success the result is that realm's plain account.                     *)
C14_CompositeWellFormed ==
    (/\ pc = "executed" /\ verdict.strategy \in {"all", "at_least_one"}
     /\ verdict.outcome.type # "raise") =>
    LET v == verdict.outcome
    IN /\ (v.type = "composite") <=> (Cardinality(Succeeding) >= 2)
       /\ v.type = "composite" =>
              /\ Len(v.composite) >= 2
              /\ Cardinality({x.realm_name : x \in SubAccounts(v.composite)})
                     = Len(v.composite)
              /\ SubAccounts(v.composite) \subseteq AccountsReturned
       /\ Cardinality(Succeeding) = 1 =>
              /\ v.type = "account"
              /\ v.account = attempt.answers[First(Succeeding)].account

-----------------------------------------------------------------------------
(* Reading the record of a clear_cache run *)

ClearedOn(name) == {k \in 1..Len(cache.done.calls) : cache.done.calls[k].realm = name}

\* the code's own rejection of a token class no realm is registered for
UnsupportedTokenKind ==
    [Exc("KeyError") EXCEPT !.inner = "Unsupported Token Type Provided"]

(* C15: a call that passes the sequence check with a token whose kind no     *)
(* configured realm supports raises UnsupportedTokenKind and invokes no      *)
(* realm's authenticate_account, with one realm configured or several.       *)
C15_UnsupportedKind ==
    (/\ Made /\ call.dispatched
     /\ \A i \in 1..Len(realms) :
            call.token.kind \notin realms[i].supported_authc_tokens)
    => /\ call.exc = UnsupportedTokenKind
       /\ call.realm_calls = <<>>

(* C16: a session event whose payload carries identifiers makes exactly one  *)
(* clear_cached_authc_info call, with identifiers.from_source(R.name), on    *)
(* every configured realm R for which that identifier is present and none on *)
(* the others; a payload without identifiers makes none; in neither case     *)
(* does the handler raise.                                                   *)
C16_CacheInvalidation ==
    pc = "cleared" =>
    /\ cache.done.exc = NoExc
    /\ IF cache.items.identifiers
       THEN /\ \A i \in 1..Len(realms) :
                  LET id == cache.items.from_source[realms[i].name]
                  IN /\ Cardinality(ClearedOn(realms[i].name))
                            = IF id # None THEN 1 ELSE 0
                     /\ \A k \in ClearedOn(realms[i].name) :
                            cache.done.calls[k].identifier = id
            /\ \A k \in 1..Len(cache.done.calls) :
                  \E i \in 1..Len(realms) : realms[i].name = cache.done.calls[k].realm
       ELSE cache.done.calls = <<>>

C16_Witness ==
    /\ pc = "cleared" /\ cache.topic = "SESSION.STOP"
    /\ Len(realms) = 2
    /\ cache.items.identifiers
    /\ cache.items.from_source["R1"] = "alice"
    /\ cache.items.from_source["R2"] = "bob"
    /\ cache.done.calls = <<[realm |-> "R1", identifier |-> "alice"],
                            [realm |-> "R2", identifier |-> "bob"]>>

(* C17: once init_realms has returned, no step (authenticate_account of any  *)
(* token and outcome, clear_cache) changes realms, token_realm_resolver,     *)
(* locking_realm, locking_limit, event_bus or authentication_strategy.       *)
C17_ReadOnlyState ==
    [][pc # "constructed" =>
          UNCHANGED <<realms, token_realm_resolver, locking_realm, locking_limit,
                      event_bus, authentication_strategy>>]_vars

\* the names of the configured realms, in the order init_realms kept them
RealmOrder == [i \in 1..Len(realms) |-> realms[i].name]

(* C18: a call that reaches dispatch with exactly one realm configured never *)
(* invokes the strategy and asks that realm directly (once, if it supports   *)
(* the token's kind); with two or more realms configured it invokes the      *)
(* strategy once, over an attempt holding all configured realms in order,    *)
(* however many of them support the token's kind.                            *)
C18_Dispatch ==
    (Made /\ call.dispatched) =>
    /\ Len(realms) = 1 =>
          /\ call.strategy_calls = <<>>
          /\ call.realm_calls =
                 IF call.token.kind \in realms[1].supported_authc_tokens
                 THEN <<realms[1].name>> ELSE <<>>
    /\ Len(realms) >= 2 => call.strategy_calls = <<RealmOrder>>

C18_Witness ==
    /\ Made /\ call.dispatched /\ Len(realms) = 2
    /\ call.token.kind \notin realms[1].supported_authc_tokens
    /\ call.token.kind \in realms[2].supported_authc_tokens
    /\ call.strategy_calls = <<<<"R1", "R2">>>>
    /\ call.realm_calls = <<"R2">>

\* where a realm stands in the attempt
Position(name) == CHOOSE i \in 1..Len(attempt.realms) : attempt.realms[i].name = name
Visited == verdict.outcome.calls

(* C19: under each of the three strategies, the realms whose                 *)
(* authenticate_account execute invokes are realms of the attempt, invoked   *)
(* in attempt order, each at most once, none of them a realm that does not   *)
(* support the token's kind, and no supporting realm before the last one     *)
(* invoked is passed over.                                                   *)
C19_VisitingOrder ==
    pc = "executed" =>
    /\ \A k \in 1..Len(Visited) :
          /\ \E i \in 1..Len(attempt.realms) : attempt.realms[i].name = Visited[k]
          /\ attempt.authentication_token.kind
                 \in attempt.realms[Position(Visited[k])].supported_authc_tokens
    /\ \A k, l \in 1..Len(Visited) :
          k < l => Position(Visited[k]) < Position(Visited[l])
    /\ Visited # <<>> =>
          \A i \in 1..Position(Visited[Len(Visited)]) :
              attempt.authentication_token.kind
                  \in attempt.realms[i].supported_authc_tokens
              => \E k \in 1..Len(Visited) : Visited[k] = attempt.realms[i].name

C19_Witness ==
    /\ pc = "executed" /\ verdict.strategy = "at_least_one"
    /\ Len(attempt.realms) = 3
    /\ attempt.authentication_token.kind = "TOTPToken"
    /\ "TOTPToken" \notin attempt.realms[2].supported_authc_tokens
    /\ Visited = <<"R1", "R3">>

(* C20: in every call AUTHENTICATION.SUCCEEDED is published exactly when the *)
(* call returns an account_id, at most once, and then none of FAILED,        *)
(* ACCOUNT_LOCKED, ACCOUNT_NOT_FOUND or PROGRESS is published in the call.   *)
C20_OutcomeEvents ==
    Made =>
    /\ Published("AUTHENTICATION.SUCCEEDED") <=> (call.returned # None)
    /\ call.returned # None => call.exc = NoExc
    /\ Cardinality({i \in 1..Len(call.events) :
                       call.events[i].topic = "AUTHENTICATION.SUCCEEDED"}) <= 1
    /\ Published("AUTHENTICATION.SUCCEEDED") =>
          \A i \in 1..Len(call.events) :
              call.events[i].topic = "AUTHENTICATION.SUCCEEDED"

C20_Witness ==
    /\ Made /\ Len(realms) = 2
    /\ call.submitted.kind = "TOTPToken" /\ call.identifiers = "bob"
    /\ call.returned = "bob"
    /\ Topics = <<"AUTHENTICATION.SUCCEEDED">>

(* C21: a call whose strategy raises MultiRealmAuthentication (two or more   *)
(* realms raised, IncorrectCredentials among the errors or not) raises that  *)
(* same exception to the caller, publishes no event, examines no             *)
(* failed_attempts and calls lock_account on no realm.                       *)
C21_AggregateBypass ==
    DispatchRaised("MultiRealmAuthentication") =>
    /\ call.exc = call.result.exc
    /\ call.returned = None
    /\ call.events = <<>>
    /\ call.examined = <<>>
    /\ call.lock_calls = <<>>

C21_Witness ==
    /\ DispatchRaised("MultiRealmAuthentication")
    /\ event_bus /\ locking_limit # NoLimit /\ locking_realm # None
    /\ Len(call.result.exc.realm_errors) = 2
    /\ \A k \in 1..2 :
          /\ call.result.exc.realm_errors[k].exc.kind = "IncorrectCredentials"
          /\ Breaches(call.result.exc.realm_errors[k].exc.failed_attempts)
    /\ call.exc.kind = "MultiRealmAuthentication"

(* C22: a call returns the account_id of an account holding two authc_info   *)
(* entries only if an earlier call made with a tier-1 token raised           *)
(* AdditionalAuthenticationRequired for that account_id.                     *)
C22_SecondFactorAfterFirst ==
    (Made /\ call.returned # None /\ Depth(call.account) = 2) =>
    call.returned \in first_factor

====
